---- MODULE Spec2Model ----
(***************************************************************************)
(* AutoStartStop: a Lambda handler that starts or stops tagged EC2         *)
(* instances, RDS instances and EKS node groups (src/main.py).             *)
(*                                                                         *)
(* Text is modelled as a sequence of character codes (ASCII), so that the  *)
(* case folding of the dispatcher and the JSON / base64 codec of the node  *)
(* group executors are computed the way the code computes them.            *)
(***************************************************************************)
EXTENDS Integers, Sequences, FiniteSets, TLC

(***************************************************************************)
(* Bounds of the model                                                     *)
(***************************************************************************)
MaxSize == 11          \* largest capacity value fed to the codec
MaxInvocations == 1    \* invocations in one behaviour, any request
MaxRounds == 2         \* invocations in one behaviour, node group requests

(***************************************************************************)
(* Text helpers                                                            *)
(***************************************************************************)
None == "None"         \* Python's None (a missing dict key, a missing return)

QUOTE == 39            \* '
DQUOTE == 34           \* "
PAD == 61              \* =

\* str.lower() on ASCII text
Lower(s) == [i \in DOMAIN s |-> IF s[i] \in 65..90 THEN s[i] + 32 ELSE s[i]]

\* re.search('^sqlserver.*', engine) != None
StartsWith(s, prefix) ==
    /\ Len(s) >= Len(prefix)
    /\ \A i \in 1..Len(prefix) : s[i] = prefix[i]

\* str.split(sep) for a one-character separator
RECURSIVE Split(_, _)
Split(s, sep) ==
    IF \A i \in DOMAIN s : s[i] # sep
    THEN <<s>>
    ELSE LET k == CHOOSE i \in DOMAIN s :
                      /\ s[i] = sep
                      /\ \A j \in 1..(i - 1) : s[j] # sep
         IN  <<SubSeq(s, 1, k - 1)>> \o Split(SubSeq(s, k + 1, Len(s)), sep)

\* str(int) for a non-negative int
RECURSIVE IntToStr(_)
IntToStr(n) ==
    IF n < 10 THEN <<48 + n>>
    ELSE Append(IntToStr(n \div 10), 48 + (n % 10))

(***************************************************************************)
(* State codec: json.dumps / base64.b64encode / str(bytes).split("'")[1]   *)
(* on the stop side (lines 569-571), base64.b64decode / bytes.decode /     *)
(* json.loads on the start side (line 516).                                *)
(***************************************************************************)
K_minSize     == <<109, 105, 110, 83, 105, 122, 101>>
K_maxSize     == <<109, 97, 120, 83, 105, 122, 101>>
K_desiredSize == <<100, 101, 115, 105, 114, 101, 100, 83, 105, 122, 101>>

\* json.dumps of the scalingConfig dict, in the key order of the provider's
\* response: {"minSize": 1, "maxSize": 5, "desiredSize": 2}
JsonMember(key, n) == <<DQUOTE>> \o key \o <<DQUOTE, 58, 32>> \o IntToStr(n)

JsonDumps(d) ==
    <<123>> \o JsonMember(K_minSize, d.minSize) \o <<44, 32>>
            \o JsonMember(K_maxSize, d.maxSize) \o <<44, 32>>
            \o JsonMember(K_desiredSize, d.desiredSize) \o <<125>>

\* the base64 alphabet: value 0..63 -> character
B64Char(n) ==
    IF n < 26 THEN 65 + n
    ELSE IF n < 52 THEN 97 + (n - 26)
    ELSE IF n < 62 THEN 48 + (n - 52)
    ELSE IF n = 62 THEN 43 ELSE 47

\* character -> value 0..63, or 64 for a character outside the alphabet
B64Val(c) ==
    IF c \in 65..90 THEN c - 65
    ELSE IF c \in 97..122 THEN c - 97 + 26
    ELSE IF c \in 48..57 THEN c - 48 + 52
    ELSE IF c = 43 THEN 62
    ELSE IF c = 47 THEN 63 ELSE 64

\* base64.b64encode(bytes): each group of three bytes gives four characters,
\* a short last group is completed with '='
B64Encode(b) ==
    LET n == Len(b)
        byte(i) == IF i <= n THEN b[i] ELSE 0
    IN  [k \in 1..(4 * ((n + 2) \div 3)) |->
            LET g  == 3 * ((k - 1) \div 4)
                j  == (k - 1) % 4
                b1 == byte(g + 1)
                b2 == byte(g + 2)
                b3 == byte(g + 3)
            IN  CASE j = 0 -> B64Char(b1 \div 4)
                  [] j = 1 -> B64Char((b1 % 4) * 16 + b2 \div 16)
                  [] j = 2 -> IF g + 2 > n THEN PAD
                              ELSE B64Char((b2 % 16) * 4 + b3 \div 64)
                  [] j = 3 -> IF g + 3 > n THEN PAD
                              ELSE B64Char(b3 % 64)]

\* str(encrypted_payload).split("\'")[1]: the repr of the bytes object is
\* b'...'; the text between the first two quotes is kept
BytesRepr(b) == <<98, QUOTE>> \o b \o <<QUOTE>>

\* the piece before the first quote is taken instead
encode_FirstPiece(d) == Split(BytesRepr(B64Encode(JsonDumps(d))), QUOTE)[1]

encode(d) == Split(BytesRepr(B64Encode(JsonDumps(d))), QUOTE)[2]

\* base64.b64decode(bytes) in its default non-validating mode: a character
\* outside the alphabet is skipped; a '=' ends the data when the current
\* quad holds three characters, or holds two and an earlier '=' followed
\* them; data that ends inside a quad is an error.  Result: [ok, bytes].
IsB64(c) == B64Val(c) < 64

B64Decode(s) ==
    LET n == Len(s)
        quadAt(i) == Cardinality({j \in 1..(i - 1) : IsB64(s[j])}) % 4
        padsAt(i) == Cardinality({j \in 1..(i - 1) :
                         /\ s[j] = PAD
                         /\ \A k \in (j + 1)..(i - 1) : ~IsB64(s[k])})
        stops == {i \in 1..n : /\ s[i] = PAD
                               /\ quadAt(i) >= 2
                               /\ quadAt(i) + padsAt(i) + 1 >= 4}
        end   == IF stops = {} THEN n + 1
                 ELSE CHOOSE i \in stops : \A j \in stops : i <= j
        data  == SelectSeq(SubSeq(s, 1, end - 1), IsB64)
        m     == Len(data)
        v(i)  == B64Val(data[i])
        nout  == 3 * (m \div 4) + (IF m % 4 >= 2 THEN (m % 4) - 1 ELSE 0)
    IN  [ok |-> stops # {} \/ m % 4 = 0,
         bytes |-> [k \in 1..nout |->
            LET g == 4 * ((k - 1) \div 3)
                j == (k - 1) % 3
            IN  CASE j = 0 -> v(g + 1) * 4 + v(g + 2) \div 16
                  [] j = 1 -> (v(g + 2) % 16) * 16 + v(g + 3) \div 4
                  [] j = 2 -> (v(g + 3) % 4) * 64 + v(g + 4)]]

\* bytes.decode(b, 'utf-8'): every byte of the model's texts is ASCII, any
\* other byte is reported as a decoding error
IsAscii(b) == \A i \in DOMAIN b : b[i] < 128

IsWs(c) == c \in {32, 9, 10, 13}
IsDigit(c) == c \in 48..57

RECURSIVE SkipWs(_, _)
SkipWs(s, i) == IF i <= Len(s) /\ IsWs(s[i]) THEN SkipWs(s, i + 1) ELSE i

RECURSIVE DigitsEnd(_, _)
DigitsEnd(s, i) == IF i <= Len(s) /\ IsDigit(s[i]) THEN DigitsEnd(s, i + 1) ELSE i

\* int() of a run of digits
RECURSIVE StrToInt(_)
StrToInt(s) ==
    IF Len(s) = 0 THEN 0
    ELSE StrToInt(SubSeq(s, 1, Len(s) - 1)) * 10 + (s[Len(s)] - 48)

JsonFail == [ok |-> FALSE, obj |-> <<>>]

\* json.loads restricted to the documents this program stores: an object
\* whose keys are plain strings and whose values are non-negative integers.
\* Any other text is reported as not loadable.  Result: [ok, obj], obj a
\* function from key text to integer (a later duplicate key wins).
RECURSIVE JsonMembers(_, _, _)
JsonMembers(s, i, obj) ==
    IF i > Len(s) \/ s[i] # DQUOTE THEN JsonFail
    ELSE IF \A j \in (i + 1)..Len(s) : s[j] # DQUOTE THEN JsonFail
    ELSE
      LET close == CHOOSE j \in (i + 1)..Len(s) :
                       /\ s[j] = DQUOTE
                       /\ \A k \in (i + 1)..(j - 1) : s[k] # DQUOTE
          key   == SubSeq(s, i + 1, close - 1)
          colon == SkipWs(s, close + 1)
          vfrom == SkipWs(s, colon + 1)
          vto   == DigitsEnd(s, vfrom)
          val   == StrToInt(SubSeq(s, vfrom, vto - 1))
          next  == SkipWs(s, vto)
          obj2  == [k \in DOMAIN obj \cup {key} |->
                        IF k = key THEN val ELSE obj[k]]
      IN  IF \E k \in DOMAIN key : key[k] = 92 THEN JsonFail
          ELSE IF colon > Len(s) \/ s[colon] # 58 THEN JsonFail
          ELSE IF vto = vfrom THEN JsonFail
          ELSE IF vto - vfrom > 1 /\ s[vfrom] = 48 THEN JsonFail
          ELSE IF next > Len(s) THEN JsonFail
          ELSE IF s[next] = 44 THEN JsonMembers(s, SkipWs(s, next + 1), obj2)
          ELSE IF s[next] = 125 /\ SkipWs(s, next + 1) > Len(s)
               THEN [ok |-> TRUE, obj |-> obj2]
          ELSE JsonFail

JsonLoads(s) ==
    LET open == SkipWs(s, 1) IN
    IF open > Len(s) \/ s[open] # 123 THEN JsonFail
    ELSE LET first == SkipWs(s, open + 1) IN
         IF first <= Len(s) /\ s[first] = 125
         THEN IF SkipWs(s, first + 1) > Len(s)
              THEN [ok |-> TRUE, obj |-> <<>>] ELSE JsonFail
         ELSE JsonMembers(s, first, <<>>)

\* json.loads(bytes.decode(base64.b64decode(bytes(tag, 'utf-8')))), line 516.
\* Result: [ok, obj]; ok = FALSE stands for the exception the chain raises.
decode(token) ==
    LET raw == B64Decode(token) IN
    IF ~raw.ok \/ ~IsAscii(raw.bytes) THEN JsonFail
    ELSE JsonLoads(raw.bytes)

ScalingKeys == {K_minSize, K_maxSize, K_desiredSize}

\* the dict {'minSize': .., 'maxSize': .., 'desiredSize': ..} as a record
AsScalingConfig(obj) ==
    [minSize |-> obj[K_minSize], maxSize |-> obj[K_maxSize],
     desiredSize |-> obj[K_desiredSize]]

\* the dict json.loads returns is the dict d
SameDict(obj, d) == DOMAIN obj = ScalingKeys /\ AsScalingConfig(obj) = d

(***************************************************************************)
(* State                                                                   *)
(***************************************************************************)
VARIABLES
    ec2,        \* instance id -> instance state
    rds,        \* db identifier -> [status, engine, multiAZ]
    eks,        \* node group -> [scalingConfig, tags]
    pc,         \* invocation -> position in lambda_handler
    event,      \* invocation -> the request being served
    executor,   \* invocation -> the executor the dispatcher selected
    located,    \* invocation -> the list the locator returned
    idx,        \* invocation -> index of the executor's running loop
    keep,       \* invocation -> the *_should_be_started / _stopped list
    local,      \* invocation -> nodegroup_config and the payload derived
    result,     \* invocation -> the list the executor collects / returns
    calls,      \* invocation -> provider calls issued, in order
    envelope,   \* invocation -> the returned JSON document, <<>> if none
    pre,        \* invocation -> node groups as they were when it began
    hist,       \* finished invocations, oldest first
    ninv,       \* number of invocations begun
    c_pc,       \* codec exercise: position
    c_d,        \* codec exercise: the descriptor
    c_token,    \* codec exercise: encrypted_payload_str
    c_out       \* codec exercise: decrypted_payload

worldVars == <<ec2, rds, eks>>
invVars   == <<pc, event, executor, located, idx, keep, local, result, calls,
               envelope, pre, hist, ninv>>
codecVars == <<c_pc, c_d, c_token, c_out>>
vars      == <<ec2, rds, eks, pc, event, executor, located, idx, keep, local,
               result, calls, envelope, pre, hist, ninv,
               c_pc, c_d, c_token, c_out>>

(***************************************************************************)
(* The codec on its own: a descriptor is encoded as the stop executor      *)
(* does, then the token is decoded as the start executor does.             *)
(***************************************************************************)
\* ScalingDescriptor of the data model: 0 <= min <= desired <= max
ValidDescriptors ==
    {d \in [minSize : 0..MaxSize, maxSize : 0..MaxSize,
            desiredSize : 0..MaxSize] :
        d.minSize <= d.desiredSize /\ d.desiredSize <= d.maxSize}

ZeroCapacity == [minSize |-> 0, maxSize |-> 1, desiredSize |-> 0]

CodecEncode ==
    /\ c_pc = "start"
    /\ c_token' = encode(c_d)
    /\ c_pc' = "encoded"
    /\ UNCHANGED <<c_d, c_out>>

CodecDecode ==
    /\ c_pc = "encoded"
    /\ c_out' = decode(c_token)
    /\ c_pc' = "decoded"
    /\ UNCHANGED <<c_d, c_token>>

(***************************************************************************)
(* The provider's resources and the requests the handler is sent           *)
(***************************************************************************)
Procs == {1, 2}        \* invocation slots; the second one serves overlap
SeqProcs == {1}        \* the slot used when invocations do not overlap

InstanceList  == <<"i-1", "i-2">>
DbList        == <<"db-1", "db-2">>
NodegroupList == <<[cluster |-> "c-1", nodegroupname |-> "ng-1"],
                   [cluster |-> "c-1", nodegroupname |-> "ng-2"]>>

Range(f) == {f[i] : i \in DOMAIN f}

InstanceIds    == Range(InstanceList)
DbIds          == Range(DbList)
NodegroupRefs  == Range(NodegroupList)

\* the value every modelled resource carries under the key DCP/AutoStartStop
ResourceSchedule == "OfficeHour"

s_stop      == <<115, 116, 111, 112>>
s_start     == <<115, 116, 97, 114, 116>>
s_Stop      == <<83, 116, 111, 112>>
s_reboot    == <<114, 101, 98, 111, 111, 116>>
s_sqlserver == <<115, 113, 108, 115, 101, 114, 118, 101, 114>>
s_sqlserver_se == s_sqlserver \o <<45, 115, 101>>
s_mysql     == <<109, 121, 115, 113, 108>>
s_abc       == <<97, 98, 99>>

Automations == {s_stop, s_start, s_Stop, s_reboot}
Resources   == {"ec2", "rds", "eks", "EC2"}
TagKeys     == {"DCP/AutoStartStop", "AutoStartStop"}
TagValues   == {"OfficeHour", "UpperHalf", "Weekend"}

\* the "details" of an event
Events == [automation : Automations, resource : Resources,
           tagkey : TagKeys, tagvalue : TagValues]

NoEvent == [automation |-> <<>>, resource |-> "", tagkey |-> "", tagvalue |-> ""]

Descriptor1 == [minSize |-> 1, maxSize |-> 5, desiredSize |-> 2]
Descriptor2 == [minSize |-> 3, maxSize |-> 12, desiredSize |-> 10]

NoTag    == [present |-> FALSE, value |-> <<>>]
Tag(v)   == [present |-> TRUE, value |-> v]

DbProfile(st, en, az) == [status |-> st, engine |-> en, multiAZ |-> az]

DbProfiles ==
    { DbProfile("available", s_mysql, FALSE),
      DbProfile("available", s_mysql, TRUE),
      DbProfile("available", s_sqlserver_se, TRUE),
      DbProfile("available", s_sqlserver, FALSE),
      DbProfile("upgrading", s_mysql, FALSE),
      DbProfile("stopped", s_mysql, FALSE),
      DbProfile("stopped", s_sqlserver_se, TRUE),
      DbProfile("starting", s_mysql, FALSE) }

DbProfilesSecond ==
    { DbProfile("available", s_mysql, FALSE),
      DbProfile("stopped", s_mysql, FALSE),
      DbProfile("stopping", s_sqlserver_se, TRUE) }

NgProfiles ==
    [scalingConfig : {Descriptor1, Descriptor2, ZeroCapacity},
     tags : {NoTag, Tag(<<>>), Tag(s_abc), Tag(encode(Descriptor2)),
             Tag(encode(ZeroCapacity))}]

NgProfilesSecond ==
    [scalingConfig : {Descriptor1},
     tags : {NoTag, Tag(encode(Descriptor1))}]

DefaultEc2 == [i \in InstanceIds |-> "running"]
DefaultRds == [d \in DbIds |-> DbProfile("available", s_mysql, FALSE)]
DefaultEks == [g \in NodegroupRefs |-> [scalingConfig |-> Descriptor1, tags |-> NoTag]]

\* one category of resources is drawn freely, the other two are at rest
InitWorld ==
    \/ /\ ec2 \in [InstanceIds -> {"running", "stopped", "pending", "stopping"}]
       /\ rds = DefaultRds
       /\ eks = DefaultEks
    \/ /\ ec2 = DefaultEc2
       /\ \E a \in DbProfiles, b \in DbProfilesSecond :
              rds = [d \in DbIds |-> IF d = DbList[1] THEN a ELSE b]
       /\ eks = DefaultEks
    \/ /\ ec2 = DefaultEc2
       /\ rds = DefaultRds
       /\ \E a \in NgProfiles, b \in NgProfilesSecond :
              eks = [g \in NodegroupRefs |-> IF g = NodegroupList[1] THEN a ELSE b]

NoLocal == [scalingConfig |-> ZeroCapacity, tags |-> NoTag,
            token |-> <<>>, payload |-> <<>>]
NoResult == [none |-> TRUE, list |-> <<>>]

InitInvocations ==
    /\ pc = [p \in Procs |-> "idle"]
    /\ event = [p \in Procs |-> NoEvent]
    /\ executor = [p \in Procs |-> None]
    /\ located = [p \in Procs |-> <<>>]
    /\ idx = [p \in Procs |-> 0]
    /\ keep = [p \in Procs |-> <<>>]
    /\ local = [p \in Procs |-> NoLocal]
    /\ result = [p \in Procs |-> NoResult]
    /\ calls = [p \in Procs |-> <<>>]
    /\ envelope = [p \in Procs |-> <<>>]
    /\ pre = [p \in Procs |-> eks]
    /\ hist = <<>>
    /\ ninv = 0

CodecIdle ==
    /\ c_pc = "off"
    /\ c_d = ZeroCapacity
    /\ c_token = <<>>
    /\ c_out = JsonFail

Init == InitWorld /\ InitInvocations /\ CodecIdle

InitCodec ==
    /\ ec2 = DefaultEc2 /\ rds = DefaultRds /\ eks = DefaultEks
    /\ InitInvocations
    /\ c_pc = "start"
    /\ c_d \in ValidDescriptors
    /\ c_token = <<>>
    /\ c_out = JsonFail

NextCodec ==
    \/ CodecEncode /\ UNCHANGED <<worldVars, invVars>>
    \/ CodecDecode /\ UNCHANGED <<worldVars, invVars>>

SpecCodec == InitCodec /\ [][NextCodec]_vars

(***************************************************************************)
(* C4: decoding, as the start executor does, the token the stop executor   *)
(* produces for a valid descriptor d yields exactly the dict d.            *)
(***************************************************************************)
CodecRoundTrip ==
    c_pc = "decoded" => c_out.ok /\ SameDict(c_out.obj, c_d)

CodecRoundTripWitness ==
    /\ c_pc = "decoded"
    /\ c_d.maxSize >= 10
    /\ c_d.minSize >= 1
    /\ c_out.ok

(***************************************************************************)
(* Dispatcher: check_payload_tag, the routing chain, the two envelopes     *)
(***************************************************************************)
tagKey    == <<"DCP/AutoStartStop">>
tagValues == <<"OfficeHour", "ExtendedOfficeHour1", "ExtendedOfficeHour2",
               "UpperHalf", "LowerHalf", "RecurringStop">>

\* list.index(x) raises ValueError
IndexRaises(list, x) == \A i \in DOMAIN list : list[i] # x

\* only the tag key is checked
check_payload_tag_KeyOnly(details) ==
    IF IndexRaises(tagKey, details.tagkey) THEN "Invalid Tag Key" ELSE ""

\* the "error" field check_payload_tag adds to the event
check_payload_tag(details) ==
    IF IndexRaises(tagKey, details.tagkey) THEN "Invalid Tag Key"
    ELSE IF IndexRaises(tagValues, details.tagvalue) THEN "Invalid Tag Value"
    ELSE ""

AWS_ID == "123456789012"   \* context.invoked_function_arn.split(":")[4]
Now    == "now"            \* the formatted clock reading

FailedEnvelope == [Status |-> "Failed", AWS_ID |-> AWS_ID, Time |-> Now]

response(action, list) ==
    [Status |-> "Successful", AWS_ID |-> AWS_ID, Time |-> Now,
     Action |-> action, ResourceList |-> list]

Branch(exec, locator, label) ==
    [executor |-> exec, locator |-> locator, label |-> label]

NoBranch == Branch(None, None, None)

\* the automation is compared as it was sent
Route_CaseSensitive(details) ==
    LET automation == details.automation
        resource   == details.resource
    IN  IF automation = s_stop /\ resource = "ec2"
        THEN Branch("auto_stop_instance", "ec2:instance", "Stop EC2 instance")
        ELSE IF automation = s_start /\ resource = "ec2"
        THEN Branch("auto_start_instance", "ec2:instance", "Start EC2 instance")
        ELSE IF automation = s_stop /\ resource = "rds"
        THEN Branch("auto_stop_dbinstance", "rds:db", "Stop RDS")
        ELSE IF automation = s_start /\ resource = "rds"
        THEN Branch("auto_start_dbinstance", "rds:db", "Start RDS")
        ELSE IF automation = s_stop /\ resource = "eks"
        THEN Branch("auto_stop_eks_nodegroup", "eks:nodegroup", "Stop EKS node group")
        ELSE IF automation = s_start /\ resource = "eks"
        THEN Branch("auto_start_eks_nodegroup", "eks:nodegroup", "Start EKS node group")
        ELSE NoBranch

\* the if / elif chain of lambda_handler, in the order of the code
Route(details) ==
    LET automation == Lower(details.automation)
        resource   == details.resource
    IN  IF automation = s_stop /\ resource = "ec2"
        THEN Branch("auto_stop_instance", "ec2:instance", "Stop EC2 instance")
        ELSE IF automation = s_start /\ resource = "ec2"
        THEN Branch("auto_start_instance", "ec2:instance", "Start EC2 instance")
        ELSE IF automation = s_stop /\ resource = "rds"
        THEN Branch("auto_stop_dbinstance", "rds:db", "Stop RDS")
        ELSE IF automation = s_start /\ resource = "rds"
        THEN Branch("auto_start_dbinstance", "rds:db", "Start RDS")
        ELSE IF automation = s_stop /\ resource = "eks"
        THEN Branch("auto_stop_eks_nodegroup", "eks:nodegroup", "Stop EKS node group")
        ELSE IF automation = s_start /\ resource = "eks"
        THEN Branch("auto_start_eks_nodegroup", "eks:nodegroup", "Start EKS node group")
        ELSE NoBranch

Ec2Executors == {"auto_start_instance", "auto_stop_instance"}
RdsExecutors == {"auto_start_dbinstance", "auto_stop_dbinstance"}
EksExecutors == {"auto_start_eks_nodegroup", "auto_stop_eks_nodegroup"}

Active(p) == pc[p] \notin {"idle", "done", "raised"}

\* a provider call as it is logged: what was called, on what, whether it
\* succeeded, and what it returned
Call(api, arg, ok, val) == [api |-> api, arg |-> arg, ok |-> ok, val |-> val]

Summary(p, status, res) ==
    [executor |-> executor[p], located |-> located[p], status |-> status,
     result |-> res, before |-> pre[p]]

\* the invocation returns an envelope
Return(p, env, res) ==
    /\ pc' = [pc EXCEPT ![p] = "done"]
    /\ envelope' = [envelope EXCEPT ![p] = env]
    /\ result' = [result EXCEPT ![p] = res]
    /\ hist' = Append(hist, Summary(p, env.Status, res))

\* the first failure is swallowed and the step is tried again
Raise_Swallowed(p) ==
    IF (\A i \in DOMAIN calls[p] : calls[p][i].ok) /\ Len(calls[p]) < 8
    THEN UNCHANGED <<pc, hist, envelope, result>>
    ELSE /\ pc' = [pc EXCEPT ![p] = "raised"]
         /\ hist' = Append(hist, Summary(p, "raised", result[p]))
         /\ UNCHANGED <<envelope, result>>

\* the failure is turned into the Failed envelope
Raise_FailedEnvelope(p) ==
    /\ pc' = [pc EXCEPT ![p] = "done"]
    /\ envelope' = [envelope EXCEPT ![p] = FailedEnvelope]
    /\ hist' = Append(hist, Summary(p, "Failed", result[p]))
    /\ UNCHANGED result

\* the invocation ends with an exception that nothing catches
Raise(p) ==
    /\ pc' = [pc EXCEPT ![p] = "raised"]
    /\ hist' = Append(hist, Summary(p, "raised", result[p]))
    /\ UNCHANGED <<envelope, result>>

\* lambda_handler up to its first provider call
Invoke(p, details, limit) ==
    /\ ~Active(p)
    /\ ninv < limit
    /\ ninv' = ninv + 1
    /\ event' = [event EXCEPT ![p] = details]
    /\ located' = [located EXCEPT ![p] = <<>>]
    /\ idx' = [idx EXCEPT ![p] = 0]
    /\ keep' = [keep EXCEPT ![p] = <<>>]
    /\ local' = [local EXCEPT ![p] = NoLocal]
    /\ calls' = [calls EXCEPT ![p] = <<>>]
    /\ pre' = [pre EXCEPT ![p] = eks]
    /\ UNCHANGED worldVars
    /\ IF check_payload_tag(details) \in {"Invalid Tag Key", "Invalid Tag Value"}
       THEN /\ executor' = [executor EXCEPT ![p] = None]
            /\ pc' = [pc EXCEPT ![p] = "done"]
            /\ envelope' = [envelope EXCEPT ![p] = FailedEnvelope]
            /\ result' = [result EXCEPT ![p] = NoResult]
            /\ hist' = Append(hist, [executor |-> None, located |-> <<>>,
                                     status |-> "Failed", result |-> NoResult,
                                     before |-> eks])
       ELSE IF Route(details) = NoBranch
       THEN /\ executor' = [executor EXCEPT ![p] = None]
            /\ pc' = [pc EXCEPT ![p] = "done"]
            /\ envelope' = [envelope EXCEPT ![p] = FailedEnvelope]
            /\ result' = [result EXCEPT ![p] = NoResult]
            /\ hist' = Append(hist, [executor |-> None, located |-> <<>>,
                                     status |-> "Failed", result |-> NoResult,
                                     before |-> eks])
       ELSE /\ executor' = [executor EXCEPT ![p] = Route(details).executor]
            /\ pc' = [pc EXCEPT ![p] = "locate"]
            /\ envelope' = [envelope EXCEPT ![p] = <<>>]
            /\ result' = [result EXCEPT ![p] = NoResult]
            /\ hist' = hist

(***************************************************************************)
(* Resource locator: get_tagged_instance / _dbinstance / _ekscluster       *)
(***************************************************************************)
\* what the tagging API returns for the filter, already parsed into the
\* identifiers the locators extract from the ARNs
Matching(locator, details) ==
    IF details.tagkey = tagKey[1] /\ details.tagvalue = ResourceSchedule
    THEN CASE locator = "ec2:instance"  -> InstanceList
           [] locator = "rds:db"        -> DbList
           [] locator = "eks:nodegroup" -> NodegroupList
    ELSE <<>>

\* what an executor returns when its loops have nothing to act on:
\* auto_start_instance / auto_stop_instance fall off the end (None), the
\* other four return the list they collected
ReturnsNothing(exec) == exec \in Ec2Executors

EmptyReturn(exec) ==
    IF ReturnsNothing(exec) THEN NoResult ELSE [none |-> FALSE, list |-> <<>>]

Log(p, c) == calls' = [calls EXCEPT ![p] = Append(calls[p], c)]

Locate(p) ==
    LET branch == Route(event[p])
        found  == Matching(branch.locator, event[p])
    IN
    /\ pc[p] = "locate"
    /\ UNCHANGED <<worldVars, event, executor, local, pre, ninv>>
    /\ \/ /\ Log(p, Call("get_resources", branch.locator, FALSE, <<>>))
          /\ Raise(p)
          /\ UNCHANGED <<located, idx, keep>>
       \/ /\ Log(p, Call("get_resources", branch.locator, TRUE, found))
          /\ located' = [located EXCEPT ![p] = found]
          /\ keep' = [keep EXCEPT ![p] =
                         IF executor[p] \in EksExecutors THEN <<>> ELSE found]
          /\ idx' = [idx EXCEPT ![p] = 1]
          /\ IF found = <<>>
             THEN /\ pc' = [pc EXCEPT ![p] = "done"]
                  /\ envelope' = [envelope EXCEPT ![p] =
                         response(branch.label, EmptyReturn(executor[p]))]
                  /\ result' = [result EXCEPT ![p] = EmptyReturn(executor[p])]
                  /\ hist' = Append(hist,
                         [executor |-> executor[p], located |-> found,
                          status |-> "Successful",
                          result |-> EmptyReturn(executor[p]),
                          before |-> pre[p]])
             ELSE /\ pc' = [pc EXCEPT ![p] = "describe"]
                  /\ result' = [result EXCEPT ![p] = EmptyReturn(executor[p])]
                  /\ UNCHANGED <<envelope, hist>>

(***************************************************************************)
(* Compute instances: auto_start_instance, auto_stop_instance              *)
(***************************************************************************)
\* list.remove(x): the first occurrence goes
Remove(list, x) ==
    IF \A i \in DOMAIN list : list[i] # x THEN list
    ELSE LET k == CHOOSE i \in DOMAIN list :
                      /\ list[i] = x
                      /\ \A j \in 1..(i - 1) : list[j] # x
         IN  SubSeq(list, 1, k - 1) \o SubSeq(list, k + 1, Len(list))

\* describe_instance_status(InstanceIds=[instance])['InstanceStatuses']:
\* a record for a running instance, nothing otherwise
InstanceStatuses(instance) ==
    IF ec2[instance] = "running"
    THEN <<[InstanceId |-> instance, Name |-> "running"]>>
    ELSE <<>>

\* `if ec2_states['InstanceStatuses']:` -- a list is true when not empty
Truthy(list) == Len(list) > 0

\* `ec2_states['InstanceStatuses'] == False` -- a list compared with a bool:
\* the two are of different types and never equal
ListEqualsFalse(list) == FALSE

\* the start filter keeps every instance
StartDropsInstance_Never(statuses) == FALSE

\* line 263: the start filter drops the instance
StartDropsInstance(statuses) == Truthy(statuses)

\* line 323: the stop filter drops the instance
StopDropsInstance(statuses) == ListEqualsFalse(statuses)

DescribeInstance(p) ==
    LET instance == located[p][idx[p]]
        statuses == InstanceStatuses(instance)
        drop     == IF executor[p] = "auto_start_instance"
                    THEN StartDropsInstance(statuses)
                    ELSE StopDropsInstance(statuses)
        keep2    == IF drop THEN Remove(keep[p], instance) ELSE keep[p]
        label    == Route(event[p]).label
    IN
    /\ pc[p] = "describe"
    /\ executor[p] \in Ec2Executors
    /\ UNCHANGED <<worldVars, event, executor, located, local, pre, ninv>>
    /\ \/ /\ Log(p, Call("describe_instance_status", instance, FALSE, <<>>))
          /\ Raise(p)
          /\ UNCHANGED <<idx, keep>>
       \/ /\ Log(p, Call("describe_instance_status", instance, TRUE, statuses))
          /\ keep' = [keep EXCEPT ![p] = keep2]
          /\ IF idx[p] < Len(located[p])
             THEN /\ idx' = [idx EXCEPT ![p] = idx[p] + 1]
                  /\ UNCHANGED <<pc, envelope, result, hist>>
             ELSE /\ UNCHANGED idx
                  /\ IF Len(keep2) = 0
                     THEN Return(p, response(label, NoResult), NoResult)
                     ELSE /\ pc' = [pc EXCEPT ![p] = "mutate"]
                          /\ UNCHANGED <<envelope, result, hist>>

\* start_instances / stop_instances: the provider takes the whole batch and
\* names every instance of it in its answer
AfterStartInstances(ids) ==
    [i \in InstanceIds |->
        IF i \in Range(ids) /\ ec2[i] # "running" THEN "pending" ELSE ec2[i]]

AfterStopInstances(ids) ==
    [i \in InstanceIds |->
        IF i \in Range(ids) /\ ec2[i] # "stopped" THEN "stopping" ELSE ec2[i]]

MutateInstances(p) ==
    LET starting == executor[p] = "auto_start_instance"
        api      == IF starting THEN "start_instances" ELSE "stop_instances"
        label    == Route(event[p]).label
        list     == [none |-> FALSE, list |-> keep[p]]
    IN
    /\ pc[p] = "mutate"
    /\ executor[p] \in Ec2Executors
    /\ UNCHANGED <<rds, eks, event, executor, located, idx, keep, local, pre, ninv>>
    /\ \/ /\ Log(p, Call(api, keep[p], FALSE, <<>>))
          /\ Raise(p)
          /\ UNCHANGED ec2
       \/ /\ Log(p, Call(api, keep[p], TRUE, keep[p]))
          /\ ec2' = IF starting THEN AfterStartInstances(keep[p])
                    ELSE AfterStopInstances(keep[p])
          /\ Return(p, response(label, list), list)

(***************************************************************************)
(* Database instances: auto_start_dbinstance, auto_stop_dbinstance         *)
(***************************************************************************)
\* only an available instance is left out
StartDropsDb_AvailableOnly(db) == db.status = "available"

\* line 377: only a fully stopped instance is started
StartDropsDb(db) == db.status # "stopped"

\* the Multi-AZ SQL Server test is missing
StopDropsDb_StatusOnly(db) == db.status # "available"

\* lines 436-443: a Multi-AZ SQL Server cannot be stopped; anything that is
\* not available is left alone
StopDropsDb(db) ==
    IF db.multiAZ = TRUE /\ StartsWith(db.engine, s_sqlserver) THEN TRUE
    ELSE IF db.status # "available" THEN TRUE
    ELSE FALSE

DescribeDb(p) ==
    LET id    == located[p][idx[p]]
        db    == rds[id]
        drop  == IF executor[p] = "auto_start_dbinstance"
                 THEN StartDropsDb(db) ELSE StopDropsDb(db)
        keep2 == IF drop THEN Remove(keep[p], id) ELSE keep[p]
        label == Route(event[p]).label
        empty == [none |-> FALSE, list |-> <<>>]
    IN
    /\ pc[p] = "describe"
    /\ executor[p] \in RdsExecutors
    /\ UNCHANGED <<worldVars, event, executor, located, local, pre, ninv>>
    /\ \/ /\ Log(p, Call("describe_db_instances", id, FALSE, <<>>))
          /\ Raise(p)
          /\ UNCHANGED <<idx, keep>>
       \/ /\ Log(p, Call("describe_db_instances", id, TRUE, db))
          /\ keep' = [keep EXCEPT ![p] = keep2]
          /\ IF idx[p] < Len(located[p])
             THEN /\ idx' = [idx EXCEPT ![p] = idx[p] + 1]
                  /\ UNCHANGED <<pc, envelope, result, hist>>
             ELSE IF Len(keep2) = 0
             THEN /\ UNCHANGED idx
                  /\ Return(p, response(label, empty), empty)
             ELSE /\ idx' = [idx EXCEPT ![p] = 1]
                  /\ pc' = [pc EXCEPT ![p] = "mutate"]
                  /\ result' = [result EXCEPT ![p] = empty]
                  /\ UNCHANGED <<envelope, hist>>

\* start_db_instance / stop_db_instance: one identifier per call; the answer
\* names the instance
MutateDb(p) ==
    LET starting == executor[p] = "auto_start_dbinstance"
        api      == IF starting THEN "start_db_instance" ELSE "stop_db_instance"
        id       == keep[p][idx[p]]
        label    == Route(event[p]).label
        list     == [none |-> FALSE, list |-> Append(result[p].list, id)]
    IN
    /\ pc[p] = "mutate"
    /\ executor[p] \in RdsExecutors
    /\ UNCHANGED <<ec2, eks, event, executor, located, keep, local, pre, ninv>>
    /\ \/ /\ Log(p, Call(api, id, FALSE, <<>>))
          /\ Raise(p)
          /\ UNCHANGED <<rds, idx>>
       \/ /\ Log(p, Call(api, id, TRUE, id))
          /\ rds' = [rds EXCEPT ![id].status =
                        IF starting THEN "starting" ELSE "stopping"]
          /\ IF idx[p] < Len(keep[p])
             THEN /\ idx' = [idx EXCEPT ![p] = idx[p] + 1]
                  /\ result' = [result EXCEPT ![p] = list]
                  /\ UNCHANGED <<pc, envelope, hist>>
             ELSE /\ UNCHANGED idx
                  /\ Return(p, response(label, list), list)

(***************************************************************************)
(* Node groups: auto_start_eks_nodegroup, auto_stop_eks_nodegroup          *)
(***************************************************************************)
\* tags.get('nodegroup_scaling') == None
TagIsNone(tags) == ~tags.present

\* `elif tags.get('nodegroup_scaling'):` -- a text is true when not empty
TagIsTruthy(tags) == tags.present /\ Len(tags.value) > 0

\* line 578 / 594: the stop executor writes the tag on these two branches
StopWritesTag(tags) == TagIsNone(tags) \/ TagIsTruthy(tags)

\* the executor returns after the first node group
NextNodegroup_ReturnEarly(p, list) ==
    /\ UNCHANGED idx
    /\ Return(p, response(Route(event[p]).label, list), list)

\* the loop body is over for this node group: on to the next one, or return
NextNodegroup(p, list) ==
    IF idx[p] < Len(located[p])
    THEN /\ idx' = [idx EXCEPT ![p] = idx[p] + 1]
         /\ pc' = [pc EXCEPT ![p] = "describe"]
         /\ result' = [result EXCEPT ![p] = list]
         /\ UNCHANGED <<envelope, hist>>
    ELSE /\ UNCHANGED idx
         /\ Return(p, response(Route(event[p]).label, list), list)

DescribeNodegroup(p) ==
    LET nodegroup == located[p][idx[p]]
        config    == eks[nodegroup]
        stopping  == executor[p] = "auto_stop_eks_nodegroup"
        token     == encode(config.scalingConfig)
        decoded   == decode(config.tags.value)
    IN
    /\ pc[p] = "describe"
    /\ executor[p] \in EksExecutors
    /\ UNCHANGED <<worldVars, event, executor, located, keep, pre, ninv>>
    /\ \/ /\ Log(p, Call("describe_nodegroup", nodegroup, FALSE, <<>>))
          /\ Raise(p)
          /\ UNCHANGED <<idx, local>>
       \/ /\ Log(p, Call("describe_nodegroup", nodegroup, TRUE, config))
          /\ IF stopping
             THEN /\ local' = [local EXCEPT ![p] =
                         [scalingConfig |-> config.scalingConfig,
                          tags |-> config.tags, token |-> token,
                          payload |-> <<>>]]
                  /\ pc' = [pc EXCEPT ![p] =
                         IF StopWritesTag(config.tags) THEN "tag" ELSE "update"]
                  /\ UNCHANGED <<idx, envelope, result, hist>>
             ELSE IF TagIsNone(config.tags)
             THEN /\ UNCHANGED local
                  /\ NextNodegroup(p, result[p])
             ELSE IF TagIsTruthy(config.tags)
             THEN /\ local' = [local EXCEPT ![p] =
                         [scalingConfig |-> config.scalingConfig,
                          tags |-> config.tags, token |-> <<>>,
                          payload |-> decoded.obj]]
                  /\ IF decoded.ok
                     THEN /\ pc' = [pc EXCEPT ![p] = "update"]
                          /\ UNCHANGED <<idx, envelope, result, hist>>
                     ELSE /\ Raise(p)
                          /\ UNCHANGED idx
             ELSE /\ UNCHANGED local
                  /\ NextNodegroup(p, result[p])

\* eks.tag_resource(resourceArn, tags={'nodegroup_scaling': token})
TagNodegroup(p) ==
    LET nodegroup == located[p][idx[p]]
        token     == local[p].token
    IN
    /\ pc[p] = "tag"
    /\ UNCHANGED <<ec2, rds, event, executor, located, idx, keep, local, pre, ninv>>
    /\ \/ /\ Log(p, Call("tag_resource", nodegroup, FALSE, token))
          /\ Raise(p)
          /\ UNCHANGED eks
       \/ /\ Log(p, Call("tag_resource", nodegroup, TRUE, token))
          /\ eks' = [eks EXCEPT ![nodegroup].tags = Tag(token)]
          /\ pc' = [pc EXCEPT ![p] = "update"]
          /\ UNCHANGED <<envelope, result, hist>>

\* the provider sets the members of scalingConfig it is given
ApplyScaling(old, obj) ==
    [minSize     |-> IF K_minSize \in DOMAIN obj THEN obj[K_minSize] ELSE old.minSize,
     maxSize     |-> IF K_maxSize \in DOMAIN obj THEN obj[K_maxSize] ELSE old.maxSize,
     desiredSize |-> IF K_desiredSize \in DOMAIN obj THEN obj[K_desiredSize]
                     ELSE old.desiredSize]

\* the scalingConfig argument of the stop executor, lines 614-618
StopScaling ==
    [k \in ScalingKeys |->
        IF k = K_minSize THEN 0 ELSE IF k = K_maxSize THEN 1 ELSE 0]

\* eks.update_nodegroup_config(clusterName, nodegroupName, scalingConfig)
\* an update that also clears the tags of the node group
Updated_DropsTags(ng, scaling) ==
    [scalingConfig |-> ApplyScaling(ng.scalingConfig, scaling), tags |-> NoTag]

\* eks.update_nodegroup_config(scalingConfig=...): the node group takes the
\* scaling configuration and keeps its tags
Updated(ng, scaling) ==
    [ng EXCEPT !.scalingConfig = ApplyScaling(ng.scalingConfig, scaling)]

UpdateNodegroup(p) ==
    LET nodegroup == located[p][idx[p]]
        stopping  == executor[p] = "auto_stop_eks_nodegroup"
        api       == IF stopping THEN "stop_nodegroup" ELSE "start_nodegroup"
        scaling   == IF stopping THEN StopScaling ELSE local[p].payload
        list      == [none |-> FALSE, list |-> Append(result[p].list, nodegroup)]
    IN
    /\ pc[p] = "update"
    /\ UNCHANGED <<ec2, rds, event, executor, located, keep, local, pre, ninv>>
    /\ \/ /\ Log(p, Call(api, nodegroup, FALSE, scaling))
          /\ Raise(p)
          /\ UNCHANGED <<eks, idx>>
       \/ /\ DOMAIN scaling \subseteq ScalingKeys
          /\ Log(p, Call(api, nodegroup, TRUE, scaling))
          /\ eks' = [eks EXCEPT ![nodegroup] = Updated(eks[nodegroup], scaling)]
          /\ NextNodegroup(p, list)

(***************************************************************************)
(* The provider finishes the transitions the mutations began               *)
(***************************************************************************)
SettledInstance(st) ==
    IF st = "pending" THEN "running" ELSE IF st = "stopping" THEN "stopped" ELSE st

SettledDb(st) ==
    IF st = "starting" THEN "available" ELSE IF st = "stopping" THEN "stopped" ELSE st

Settle ==
    /\ \A p \in Procs : ~Active(p)
    /\ ec2' = [i \in InstanceIds |-> SettledInstance(ec2[i])]
    /\ rds' = [d \in DbIds |-> [rds[d] EXCEPT !.status = SettledDb(rds[d].status)]]
    /\ <<ec2', rds'>> # <<ec2, rds>>
    /\ UNCHANGED <<eks, invVars>>

(***************************************************************************)
(* Invocations one after the other                                         *)
(***************************************************************************)
Next ==
    \/ \E p \in SeqProcs, details \in Events :
           Invoke(p, details, MaxInvocations) /\ UNCHANGED codecVars
    \/ \E p \in SeqProcs : Locate(p) /\ UNCHANGED codecVars
    \/ \E p \in SeqProcs : DescribeInstance(p) /\ UNCHANGED codecVars
    \/ \E p \in SeqProcs : MutateInstances(p) /\ UNCHANGED codecVars
    \/ \E p \in SeqProcs : DescribeDb(p) /\ UNCHANGED codecVars
    \/ \E p \in SeqProcs : MutateDb(p) /\ UNCHANGED codecVars
    \/ \E p \in SeqProcs : DescribeNodegroup(p) /\ UNCHANGED codecVars
    \/ \E p \in SeqProcs : TagNodegroup(p) /\ UNCHANGED codecVars
    \/ \E p \in SeqProcs : UpdateNodegroup(p) /\ UNCHANGED codecVars
    \/ Settle /\ UNCHANGED codecVars

Spec == Init /\ [][Next]_vars

(***************************************************************************)
(* Stop and start requests for the node groups, several in a row           *)
(***************************************************************************)
EksEvents ==
    [automation : {s_stop, s_start}, resource : {"eks"},
     tagkey : {tagKey[1]}, tagvalue : {ResourceSchedule}]

InitEks ==
    /\ ec2 = DefaultEc2
    /\ rds = DefaultRds
    /\ \E a \in NgProfiles, b \in NgProfilesSecond :
           eks = [g \in NodegroupRefs |-> IF g = NodegroupList[1] THEN a ELSE b]
    /\ InitInvocations
    /\ CodecIdle

NextEks ==
    \/ \E p \in SeqProcs, details \in EksEvents :
           Invoke(p, details, MaxRounds) /\ UNCHANGED codecVars
    \/ \E p \in SeqProcs : Locate(p) /\ UNCHANGED codecVars
    \/ \E p \in SeqProcs : DescribeNodegroup(p) /\ UNCHANGED codecVars
    \/ \E p \in SeqProcs : TagNodegroup(p) /\ UNCHANGED codecVars
    \/ \E p \in SeqProcs : UpdateNodegroup(p) /\ UNCHANGED codecVars

SpecEks == InitEks /\ [][NextEks]_vars

(***************************************************************************)
(* Properties                                                              *)
(***************************************************************************)
RecognizedKey == "DCP/AutoStartStop"
RecognizedValues == {"OfficeHour", "ExtendedOfficeHour1", "ExtendedOfficeHour2",
                     "UpperHalf", "LowerHalf", "RecurringStop"}

ValidTag(details) ==
    details.tagkey = RecognizedKey /\ details.tagvalue \in RecognizedValues

Began(p) == pc[p] # "idle"

\* positions in the call log of invocation p that call api on arg
CallsTo(p, api, arg) ==
    {i \in DOMAIN calls[p] : calls[p][i].api = api /\ calls[p][i].arg = arg}

CallsOf(p, api) == {i \in DOMAIN calls[p] : calls[p][i].api = api}

StopWritesTagBeforeZero ==
    \A p \in Procs :
        \A i \in CallsOf(p, "stop_nodegroup") :
            \E j \in 1..(i - 1), k \in 1..(i - 1) :
                /\ k < j
                /\ calls[p][k].api = "describe_nodegroup"
                /\ calls[p][k].arg = calls[p][i].arg
                /\ calls[p][k].ok
                /\ calls[p][j].api = "tag_resource"
                /\ calls[p][j].arg = calls[p][i].arg
                /\ calls[p][j].ok
                /\ decode(calls[p][j].val).ok
                /\ SameDict(decode(calls[p][j].val).obj,
                            calls[p][k].val.scalingConfig)

(***************************************************************************)
(* C3: an error-free stop of the node groups followed by an error-free     *)
(* start leaves every located node group with the scaling configuration it *)
(* had before the stop, and the start lists the group as started.          *)
(***************************************************************************)
StopThenStart ==
    /\ Len(hist) >= 2
    /\ ninv = Len(hist)
    /\ hist[Len(hist) - 1].executor = "auto_stop_eks_nodegroup"
    /\ hist[Len(hist) - 1].status = "Successful"
    /\ hist[Len(hist)].executor = "auto_start_eks_nodegroup"
    /\ hist[Len(hist)].status = "Successful"

StopStartRoundTrip ==
    StopThenStart =>
        \A g \in Range(hist[Len(hist) - 1].located) :
            /\ eks[g].scalingConfig = hist[Len(hist) - 1].before[g].scalingConfig
            /\ g \in Range(hist[Len(hist)].result.list)

\* the successful status read of x in invocation p returned this
ReadOf(p, api, x) ==
    calls[p][CHOOSE i \in CallsTo(p, api, x) : calls[p][i].ok].val

WasRead(p, api, x) == \E i \in CallsTo(p, api, x) : calls[p][i].ok

Returned(p) == pc[p] = "done" /\ DOMAIN envelope[p] # {}

(***************************************************************************)
(* C5: in a stop of the compute instances, the batched stop call receives  *)
(* exactly the located instances whose status read returned a record; an   *)
(* instance without a status record is not passed to the stop call and is  *)
(* not in the ResourceList of the response, which is Successful and        *)
(* labelled 'Stop EC2 instance'.                                           *)
(***************************************************************************)
StopInstanceFilter ==
    \A p \in Procs :
        executor[p] = "auto_stop_instance" =>
            /\ \A i \in CallsOf(p, "stop_instances") :
                   Range(calls[p][i].arg) =
                       {x \in Range(located[p]) :
                            /\ WasRead(p, "describe_instance_status", x)
                            /\ ReadOf(p, "describe_instance_status", x) # <<>>}
            /\ Returned(p) =>
                   /\ envelope[p].Status = "Successful"
                   /\ envelope[p].Action = "Stop EC2 instance"
                   /\ \A x \in Range(envelope[p].ResourceList.list) :
                          ReadOf(p, "describe_instance_status", x) # <<>>

(***************************************************************************)
(* C6: in a start of the compute instances, the batched start call         *)
(* receives exactly the located instances whose status read returned no    *)
(* record; an instance with a status record is never passed to a start     *)
(* call, and a start call is issued once some instance has no record.      *)
(***************************************************************************)
StartInstanceFilter ==
    \A p \in Procs :
        executor[p] = "auto_start_instance" =>
            LET unread  == {x \in Range(located[p]) :
                               ~WasRead(p, "describe_instance_status", x)}
                stopped == {x \in Range(located[p]) :
                               /\ WasRead(p, "describe_instance_status", x)
                               /\ ReadOf(p, "describe_instance_status", x) = <<>>}
            IN  /\ \A i \in CallsOf(p, "start_instances") :
                       /\ unread = {}
                       /\ Range(calls[p][i].arg) = stopped
                /\ Returned(p) =>
                       /\ Cardinality(CallsOf(p, "start_instances")) =
                              IF stopped = {} THEN 0 ELSE 1
                       /\ envelope[p].Action = "Start EC2 instance"

StartInstanceFilterWitness ==
    \E p \in Procs :
        /\ executor[p] = "auto_start_instance"
        /\ Returned(p)
        /\ WasRead(p, "describe_instance_status", InstanceList[1])
        /\ \E i \in CallsOf(p, "start_instances") :
               calls[p][i].arg = <<InstanceList[2]>>
        /\ ReadOf(p, "describe_instance_status", InstanceList[1]) # <<>>

(***************************************************************************)
(* C7: in a stop of the database instances, a stop call is issued for a    *)
(* located identifier exactly when its status read is 'available' and it   *)
(* is not both Multi-AZ and of an engine whose name starts with            *)
(* 'sqlserver'.  While the invocation runs the stop calls stay within that *)
(* set; when it has returned they are that set.                            *)
(***************************************************************************)
Stoppable(db) ==
    /\ db.status = "available"
    /\ ~(/\ db.multiAZ
         /\ Len(db.engine) >= 9
         /\ SubSeq(db.engine, 1, 9) = s_sqlserver)

StopDbFilter ==
    \A p \in Procs :
        executor[p] = "auto_stop_dbinstance" =>
            LET wanted == {x \in Range(located[p]) :
                              /\ WasRead(p, "describe_db_instances", x)
                              /\ Stoppable(ReadOf(p, "describe_db_instances", x))}
                called == {calls[p][i].arg : i \in CallsOf(p, "stop_db_instance")}
            IN  /\ called \subseteq wanted
                /\ Returned(p) => called = wanted

StopDbFilterWitness ==
    \E p \in Procs :
        /\ executor[p] = "auto_stop_dbinstance"
        /\ Returned(p)
        /\ WasRead(p, "describe_db_instances", DbList[1])
        /\ ReadOf(p, "describe_db_instances", DbList[1]) =
               DbProfile("available", s_sqlserver_se, TRUE)
        /\ CallsTo(p, "stop_db_instance", DbList[1]) = {}
        /\ CallsTo(p, "stop_db_instance", DbList[2]) # {}

StopDbFilterWitnessPlain ==
    \E p \in Procs :
        /\ executor[p] = "auto_stop_dbinstance"
        /\ Returned(p)
        /\ WasRead(p, "describe_db_instances", DbList[1])
        /\ ReadOf(p, "describe_db_instances", DbList[1]) =
               DbProfile("available", s_sqlserver, FALSE)
        /\ CallsTo(p, "stop_db_instance", DbList[1]) # {}

(***************************************************************************)
(* C8: in a start of the database instances, a start call is issued for a  *)
(* located identifier exactly when its status read in this invocation is   *)
(* 'stopped', and the ResourceList of the response holds exactly the       *)
(* identifiers a start call was issued for.                                *)
(***************************************************************************)
StartDbFilter ==
    \A p \in Procs :
        executor[p] = "auto_start_dbinstance" =>
            LET wanted == {x \in Range(located[p]) :
                              /\ WasRead(p, "describe_db_instances", x)
                              /\ ReadOf(p, "describe_db_instances", x).status = "stopped"}
                called == {calls[p][i].arg : i \in CallsOf(p, "start_db_instance")}
            IN  /\ called \subseteq wanted
                /\ Returned(p) =>
                       /\ called = wanted
                       /\ ~envelope[p].ResourceList.none
                       /\ Range(envelope[p].ResourceList.list) = called

StartDbFilterWitness ==
    \E p \in Procs :
        /\ executor[p] = "auto_start_dbinstance"
        /\ Returned(p)
        /\ WasRead(p, "describe_db_instances", DbList[1])
        /\ WasRead(p, "describe_db_instances", DbList[2])
        /\ ReadOf(p, "describe_db_instances", DbList[1]).status = "starting"
        /\ ReadOf(p, "describe_db_instances", DbList[2]).status = "stopped"
        /\ envelope[p].ResourceList.list = <<DbList[2]>>

PositionIn(list, x) == CHOOSE i \in DOMAIN list : list[i] = x

(***************************************************************************)
(* C9: in a start of the node groups, a located node group that carries no *)
(* nodegroup_scaling tag gets no scaling update and no tag write, is left  *)
(* as it was read and is not listed as started; the executor goes on to    *)
(* the next located node group, or, after the last one, returns a          *)
(* Successful envelope.                                                    *)
(***************************************************************************)
TaglessStartSkipped ==
    \A p \in Procs :
        executor[p] = "auto_start_eks_nodegroup" =>
            \A k \in CallsOf(p, "describe_nodegroup") :
                calls[p][k].ok /\ ~calls[p][k].val.tags.present =>
                    LET g == calls[p][k].arg
                        m == PositionIn(located[p], g)
                    IN  /\ CallsTo(p, "start_nodegroup", g) = {}
                        /\ CallsTo(p, "tag_resource", g) = {}
                        /\ g \notin Range(result[p].list)
                        /\ eks[g] = calls[p][k].val
                        /\ k < Len(calls[p]) =>
                               /\ m < Len(located[p])
                               /\ calls[p][k + 1].api = "describe_nodegroup"
                               /\ calls[p][k + 1].arg = located[p][m + 1]
                        /\ k = Len(calls[p]) =>
                               IF m < Len(located[p])
                               THEN pc[p] = "describe" /\ idx[p] = m + 1
                               ELSE /\ Returned(p)
                                    /\ envelope[p].Status = "Successful"

TaglessStartSkippedWitness ==
    \E p \in Procs :
        /\ executor[p] = "auto_start_eks_nodegroup"
        /\ Returned(p)
        /\ WasRead(p, "describe_nodegroup", NodegroupList[1])
        /\ ~ReadOf(p, "describe_nodegroup", NodegroupList[1]).tags.present
        /\ CallsTo(p, "start_nodegroup", NodegroupList[2]) # {}
        /\ envelope[p].ResourceList.list = <<NodegroupList[2]>>
        /\ envelope[p].Status = "Successful"

(***************************************************************************)
(* C10: a request with a valid tag whose automation, case folded, is       *)
(* 'start' or 'stop' and whose resource is exactly 'ec2', 'rds' or 'eks'   *)
(* issues only the provider calls of that one executor and, when it        *)
(* returns, returns the Successful envelope with that executor's label;    *)
(* every other combination returns the Failed envelope without a provider  *)
(* call.                                                                   *)
(***************************************************************************)
CallsAllowed(automation, resource) ==
    CASE automation = s_stop /\ resource = "ec2" ->
            {"get_resources", "describe_instance_status", "stop_instances"}
      [] automation = s_start /\ resource = "ec2" ->
            {"get_resources", "describe_instance_status", "start_instances"}
      [] automation = s_stop /\ resource = "rds" ->
            {"get_resources", "describe_db_instances", "stop_db_instance"}
      [] automation = s_start /\ resource = "rds" ->
            {"get_resources", "describe_db_instances", "start_db_instance"}
      [] automation = s_stop /\ resource = "eks" ->
            {"get_resources", "describe_nodegroup", "tag_resource", "stop_nodegroup"}
      [] automation = s_start /\ resource = "eks" ->
            {"get_resources", "describe_nodegroup", "start_nodegroup"}

LabelExpected(automation, resource) ==
    CASE automation = s_stop /\ resource = "ec2" -> "Stop EC2 instance"
      [] automation = s_start /\ resource = "ec2" -> "Start EC2 instance"
      [] automation = s_stop /\ resource = "rds" -> "Stop RDS"
      [] automation = s_start /\ resource = "rds" -> "Start RDS"
      [] automation = s_stop /\ resource = "eks" -> "Stop EKS node group"
      [] automation = s_start /\ resource = "eks" -> "Start EKS node group"

SearchExpected(resource) ==
    CASE resource = "ec2" -> "ec2:instance"
      [] resource = "rds" -> "rds:db"
      [] resource = "eks" -> "eks:nodegroup"

DispatcherRoutingWitnessUnrouted ==
    \E p \in Procs :
        /\ ValidTag(event[p])
        /\ event[p].automation = s_stop
        /\ event[p].resource = "EC2"
        /\ envelope[p] = FailedEnvelope

MutationCalls ==
    {"start_instances", "stop_instances", "start_db_instance",
     "stop_db_instance", "tag_resource", "start_nodegroup", "stop_nodegroup"}

\* the calls whose argument is one located resource
PerResourceCalls ==
    {"describe_instance_status", "describe_db_instances", "describe_nodegroup",
     "start_db_instance", "stop_db_instance", "tag_resource",
     "start_nodegroup", "stop_nodegroup"}

\* the provider call of invocation p that failed, if one did
FailedCalls(p) == {i \in DOMAIN calls[p] : ~calls[p][i].ok}

(***************************************************************************)
(* C11: once a provider call of an invocation has failed, the invocation   *)
(* issues no further provider call: the failed call is the last one and    *)
(* the invocation has ended with the exception.  The resources located     *)
(* after the one the call failed on have received no mutation call, and    *)
(* the mutations applied before the failure are still in place.            *)
(***************************************************************************)
FailFast ==
    \A p \in Procs :
        /\ \A i \in FailedCalls(p) : i = Len(calls[p]) /\ pc[p] = "raised"
        /\ \A i \in FailedCalls(p) :
               calls[p][i].api \in PerResourceCalls =>
                   \A m \in DOMAIN located[p] :
                       m > PositionIn(located[p], calls[p][i].arg) =>
                           \A j \in DOMAIN calls[p] :
                               calls[p][j].api \in MutationCalls =>
                                   calls[p][j].arg # located[p][m]
        /\ FailedCalls(p) # {} =>
               /\ \A j \in CallsOf(p, "stop_nodegroup") :
                      calls[p][j].ok =>
                          eks[calls[p][j].arg].scalingConfig = ZeroCapacity
               /\ \A j \in CallsOf(p, "start_nodegroup") :
                      calls[p][j].ok =>
                          SameDict(calls[p][j].val, eks[calls[p][j].arg].scalingConfig)
               /\ \A j \in CallsOf(p, "tag_resource") :
                      calls[p][j].ok =>
                          eks[calls[p][j].arg].tags = Tag(calls[p][j].val)
               /\ \A j \in CallsOf(p, "stop_db_instance") :
                      calls[p][j].ok =>
                          rds[calls[p][j].arg].status \in {"stopping", "stopped"}
               /\ \A j \in CallsOf(p, "start_db_instance") :
                      calls[p][j].ok =>
                          rds[calls[p][j].arg].status \in {"starting", "available"}

FailFastWitness ==
    \E p \in Procs :
        /\ pc[p] = "raised"
        /\ executor[p] = "auto_stop_eks_nodegroup"
        /\ Len(calls[p]) = 6
        /\ calls[p][4].api = "stop_nodegroup" /\ calls[p][4].ok
        /\ calls[p][6].api = "tag_resource" /\ ~calls[p][6].ok
        /\ eks[NodegroupList[1]].scalingConfig = ZeroCapacity
        /\ eks[NodegroupList[2]].scalingConfig = Descriptor1
        /\ ~eks[NodegroupList[2]].tags.present

(***************************************************************************)
(* C12: an invocation in which a provider call fails ends with that        *)
(* failure and returns no envelope; an invocation that returns the Failed  *)
(* envelope has issued no provider call.                                   *)
(***************************************************************************)
AsymmetricErrors ==
    \A p \in Procs :
        /\ FailedCalls(p) # {} => pc[p] = "raised" /\ DOMAIN envelope[p] = {}
        /\ pc[p] = "raised" => DOMAIN envelope[p] = {}
        /\ (Returned(p) /\ envelope[p].Status = "Failed") => calls[p] = <<>>

AsymmetricErrorsWitness ==
    \E p \in Procs :
        /\ pc[p] = "raised"
        /\ executor[p] = "auto_start_dbinstance"
        /\ Len(calls[p]) = 4
        /\ calls[p][4].api = "start_db_instance" /\ ~calls[p][4].ok
        /\ envelope[p] = <<>>

(***************************************************************************)
(* C13: a Successful envelope carries an Action label and a ResourceList   *)
(* that is a list, empty when nothing was affected, never null.            *)
(***************************************************************************)
SuccessfulShape ==
    \A p \in Procs :
        (Returned(p) /\ envelope[p].Status = "Successful") =>
            /\ DOMAIN envelope[p] =
                   {"Status", "AWS_ID", "Time", "Action", "ResourceList"}
            /\ envelope[p].Action \in
                   {"Stop EC2 instance", "Start EC2 instance", "Stop RDS",
                    "Start RDS", "Stop EKS node group", "Start EKS node group"}
            /\ ~envelope[p].ResourceList.none

SuccessfulStop(k) ==
    /\ hist[k].executor = "auto_stop_eks_nodegroup"
    /\ hist[k].status = "Successful"

SuccessfulStart(k) ==
    /\ hist[k].executor = "auto_start_eks_nodegroup"
    /\ hist[k].status = "Successful"

Quiet == ninv = Len(hist) /\ \A p \in Procs : ~Active(p)

\* the tags hold the descriptor of capacity d
Stores(tags, d) ==
    /\ tags.present
    /\ decode(tags.value).ok
    /\ SameDict(decode(tags.value).obj, d)

(***************************************************************************)
(* C14: for a node group whose capacity while started is d, other than     *)
(* {min 0, max 1, desired 0}, and for which a stop has stored d: a start   *)
(* that follows that stop and any further error-free stops sets the        *)
(* capacity back to d, and a stop that follows that stop does not replace  *)
(* the stored descriptor.                                                  *)
(***************************************************************************)
RepeatedStopKeepsDescriptor ==
    Quiet /\ Len(hist) >= 2 =>
        LET last == Len(hist) IN
        /\ SuccessfulStart(last) =>
               \A k \in 1..(last - 1) :
                   (\A j \in k..(last - 1) : SuccessfulStop(j)) =>
                       \A g \in Range(hist[k].located) :
                           LET d == hist[k].before[g].scalingConfig IN
                           (d # ZeroCapacity /\ Stores(hist[k + 1].before[g].tags, d)) =>
                               eks[g].scalingConfig = d
        /\ (SuccessfulStop(last - 1) /\ SuccessfulStop(last)) =>
               \A g \in Range(hist[last].located) :
                   LET d == hist[last - 1].before[g].scalingConfig IN
                   (d # ZeroCapacity /\ Stores(hist[last].before[g].tags, d)) =>
                       Stores(eks[g].tags, d)

(***************************************************************************)
(* C15: a failed write of the nodegroup_scaling tag is followed by no      *)
(* zero-capacity update in that invocation, and a node group the           *)
(* invocation has zeroed carries the nodegroup_scaling tag that the same   *)
(* invocation wrote for it beforehand.                                     *)
(***************************************************************************)
ZeroedGroupsCarryTag ==
    \A p \in Procs :
        /\ \A i \in CallsOf(p, "tag_resource") :
               ~calls[p][i].ok =>
                   \A j \in CallsOf(p, "stop_nodegroup") : j < i
        /\ \A j \in CallsOf(p, "stop_nodegroup") :
               calls[p][j].ok =>
                   \E i \in CallsTo(p, "tag_resource", calls[p][j].arg) :
                       /\ i < j
                       /\ calls[p][i].ok
                       /\ eks[calls[p][j].arg].tags = Tag(calls[p][i].val)

(***************************************************************************)
(* Two stop requests for the node groups served at the same time           *)
(***************************************************************************)
StopEksEvents ==
    [automation : {s_stop}, resource : {"eks"},
     tagkey : {tagKey[1]}, tagvalue : {ResourceSchedule}]

NextConcurrent ==
    \/ \E p \in Procs, details \in StopEksEvents :
           Invoke(p, details, MaxRounds) /\ UNCHANGED codecVars
    \/ \E p \in Procs : Locate(p) /\ UNCHANGED codecVars
    \/ \E p \in Procs : DescribeNodegroup(p) /\ UNCHANGED codecVars
    \/ \E p \in Procs : TagNodegroup(p) /\ UNCHANGED codecVars
    \/ \E p \in Procs : UpdateNodegroup(p) /\ UNCHANGED codecVars

SpecConcurrent == InitEks /\ [][NextConcurrent]_vars

(***************************************************************************)
(* C16: when two stop invocations have run at the same time against the    *)
(* same node groups and both have returned, every group (that did not      *)
(* carry an empty tag) is at {min 0, max 1, desired 0} and its             *)
(* nodegroup_scaling tag decodes to the capacity the group had before      *)
(* either stop began.                                                      *)
(***************************************************************************)
BothStopsReturned ==
    /\ \A p \in Procs :
           /\ executor[p] = "auto_stop_eks_nodegroup"
           /\ Returned(p)
           /\ envelope[p].Status = "Successful"
    /\ pre[1] = pre[2]

ConcurrentStopsKeepDescriptor ==
    BothStopsReturned =>
        \A g \in NodegroupRefs :
            pre[1][g].tags # Tag(<<>>) =>
                /\ eks[g].scalingConfig = ZeroCapacity
                /\ Stores(eks[g].tags, pre[1][g].scalingConfig)

(***************************************************************************)
(* C17: in a start or stop of the compute instances, the batched start or  *)
(* stop call comes after the status read of every located instance, there  *)
(* is at most one such call, its argument is exactly the surviving set     *)
(* (start: the instances whose read returned no record; stop: those whose  *)
(* read returned a record), and no such call is made when that set is      *)
(* empty.                                                                  *)
(***************************************************************************)
BatchApi(p) ==
    IF executor[p] = "auto_start_instance" THEN "start_instances"
    ELSE "stop_instances"

Surviving(p) ==
    {x \in Range(located[p]) :
         /\ WasRead(p, "describe_instance_status", x)
         /\ IF executor[p] = "auto_start_instance"
            THEN ReadOf(p, "describe_instance_status", x) = <<>>
            ELSE ReadOf(p, "describe_instance_status", x) # <<>>}

ReadsPrecede(p, i) ==
    /\ \A x \in Range(located[p]) : WasRead(p, "describe_instance_status", x)
    /\ \A j \in CallsOf(p, "describe_instance_status") : j < i

InstanceCallOrdering ==
    \A p \in Procs :
        executor[p] \in Ec2Executors =>
            /\ Cardinality(CallsOf(p, BatchApi(p))) <= 1
            /\ \A i \in CallsOf(p, BatchApi(p)) :
                   /\ ReadsPrecede(p, i)
                   /\ Range(calls[p][i].arg) = Surviving(p)
                   /\ Surviving(p) # {}

(***************************************************************************)
(* C18: no step removes the nodegroup_scaling tag of a node group, and a   *)
(* step changes the tag of a node group only when it is the tag write of a *)
(* stop invocation working on that group; a start invocation makes no tag  *)
(* write.  A tag once written therefore stays present through every later  *)
(* stop and start.                                                         *)
(***************************************************************************)
TagWrittenByStop(g) ==
    \E p \in Procs :
        /\ executor[p] = "auto_stop_eks_nodegroup"
        /\ Len(calls'[p]) = Len(calls[p]) + 1
        /\ calls'[p][Len(calls'[p])].api = "tag_resource"
        /\ calls'[p][Len(calls'[p])].arg = g
        /\ calls'[p][Len(calls'[p])].ok

TagFrameStep ==
    /\ \A g \in NodegroupRefs :
           /\ eks[g].tags.present => eks'[g].tags.present
           /\ eks'[g].tags # eks[g].tags => TagWrittenByStop(g)
    /\ \A p \in Procs :
           executor'[p] = "auto_start_eks_nodegroup" =>
               CallsOf(p, "tag_resource")' = {}

TagFrame == [][TagFrameStep]_vars

TagFrameWitness ==
    /\ Len(hist) = 2
    /\ SuccessfulStop(1)
    /\ SuccessfulStart(2)
    /\ Quiet
    /\ \E g \in NodegroupRefs :
           /\ ~hist[1].before[g].tags.present
           /\ hist[1].before[g].scalingConfig = Descriptor1
           /\ Stores(hist[2].before[g].tags, Descriptor1)
           /\ g \in Range(hist[2].result.list)
           /\ eks[g].tags = hist[2].before[g].tags
           /\ eks[g].scalingConfig = Descriptor1

====
